---- MODULE Spec2Model ----
(***************************************************************************)
(* CreateTimeLapsePolygons.py: validate the tool inputs, build the list of *)
(* times of day between a start and an end instant, then solve the Service *)
(* Area layer once per time and export the polygons tagged with the time.  *)
(*                                                                         *)
(* A datetime is modelled as the number of whole minutes since             *)
(* 1899-12-31 00:00 (the placeholder date of the generic weekday Sunday);  *)
(* a timedelta is a number of minutes.                                     *)
(***************************************************************************)
EXTENDS Integers, Sequences, FiniteSets, TLC

VARIABLES pc, checkedOut, licenseAvailable, desc, errors, warnings,
          start_day_input, end_day_input, start_time_input, end_time_input,
          generic_weekday, start_day, end_day, start_time, end_time,
          increment, timelist, t, idx,
          fieldType, polygons, timeOfDay, outputExists, output, toolsRun

vars == <<pc, checkedOut, licenseAvailable, desc, errors, warnings,
          start_day_input, end_day_input, start_time_input, end_time_input,
          generic_weekday, start_day, end_day, start_time, end_time,
          increment, timelist, t, idx,
          fieldType, polygons, timeOfDay, outputExists, output, toolsRun>>

---------------------------------------------------------------------------
(* Bounds of the explored input space *)

\* largest increment (minutes) read from parameter 6
MaxInc == 3
\* longest window (end - start, minutes) read from parameters 2..5
MaxWindow == 5
\* longest time list built before the loop is cut off
MaxList == 8

---------------------------------------------------------------------------
(* Values *)

MinutesPerHour == 60
MinutesPerDay == 1440

\* solverProps.timeOfDay before the script sets it
NoTime == -1
\* Shape of polygons that were in the output before the run
OldShape == -2
\* TimeOfDay of a polygon whose field was never calculated (null)
NoTag == [date |-> -1, hour |-> 0, minute |-> 0]
\* TimeOfDay of polygons that were in the output before the run
OldTag == [date |-> -2, hour |-> 0, minute |-> 0]

ErrLicense == "You must have a Network Analyst license to use this tool."
ErrLayer == "Input layer must be a Service Area layer."
ErrStartSpecificEndGeneric == "Your Start Day is a specific date, but your End Day is a generic weekday."
ErrStartGenericEndSpecific == "Your Start Day is a generic weekday, but your End Day is a specific date."
ErrWeekdays == "If using a generic weekday, the Start Day and End Day must be the same."
ErrSame == "Start and end date and time are the same."
ErrEarlier == "End time is earlier than start time."
WarnField == "TimeOfDay field of a type other than Date will be deleted and replaced."

\* datetime.datetime(y, m, d) of a day, as minutes since 1899-12-31 00:00
Date(ordinal) == ordinal * MinutesPerDay

\* the generic weekday placeholder dates
days == [d \in {"Monday", "Tuesday", "Wednesday", "Thursday", "Friday",
                "Saturday", "Sunday"} |->
           CASE d = "Monday"    -> Date(1)
             [] d = "Tuesday"   -> Date(2)
             [] d = "Wednesday" -> Date(3)
             [] d = "Thursday"  -> Date(4)
             [] d = "Friday"    -> Date(5)
             [] d = "Saturday"  -> Date(6)
             [] d = "Sunday"    -> Date(0)]

\* the specific dates ('%Y%m%d') the inputs are drawn from
DateInputs == {"18991231", "19000101", "19000102"}
\* the generic weekdays the inputs are drawn from
WeekdayInputs == {"Monday", "Tuesday", "Sunday"}
DayInputs == WeekdayInputs \cup DateInputs
\* the clock times ('%H:%M') the inputs are drawn from
ClockInputs == {"00:00", "00:01", "00:03", "23:57", "23:59"}

\* datetime.datetime.strptime(s, '%Y%m%d')
StrpDate(s) ==
    CASE s = "18991231" -> Date(0)
      [] s = "19000101" -> Date(1)
      [] s = "19000102" -> Date(2)

\* datetime.datetime.strptime(s, "%H:%M"): the hour and minute fields
StrpTime(s) ==
    CASE s = "00:00" -> [hour |-> 0, minute |-> 0]
      [] s = "00:01" -> [hour |-> 0, minute |-> 1]
      [] s = "00:03" -> [hour |-> 0, minute |-> 3]
      [] s = "23:57" -> [hour |-> 23, minute |-> 57]
      [] s = "23:59" -> [hour |-> 23, minute |-> 59]

\* datetime.datetime(day.year, day.month, day.day, tm.hour, tm.minute)
Combine(day, tm) ==
    (day \div MinutesPerDay) * MinutesPerDay + tm.hour * MinutesPerHour + tm.minute

\* str(t) of a datetime: "YYYY-MM-DD HH:MM:SS", as its date, hour and minute
Str(d) == [date   |-> d \div MinutesPerDay,
           hour   |-> (d % MinutesPerDay) \div MinutesPerHour,
           minute |-> d % MinutesPerHour]

\* the day a day input denotes, whichever kind it is
DayOf(s) == IF s \in DOMAIN days THEN days[s] ELSE StrpDate(s)

\* the instant a day input and a clock input denote
InstantOf(dayIn, clockIn) == Combine(DayOf(dayIn), StrpTime(clockIn))

---------------------------------------------------------------------------
(* Conditions of the script *)

\* desc.dataType != "NALayer" or desc.solverName != "Service Area Solver"
NotServiceArea(d) ==
    d.dataType # "NALayer" \/ d.solverName # "Service Area Solver"

\* if not generic_weekday (the end day is a generic weekday)
StartIsSpecific_Never(gw) == FALSE
StartIsSpecific(gw) == ~gw

\* if start_day != end_day (two generic weekdays)
WeekdaysDiffer_Later(sd, ed) == sd > ed
WeekdaysDiffer(sd, ed) == sd # ed

\* if start_time == end_time
SameTime_Never(s, e) == FALSE
SameTime(s, e) == s = e

\* elif end_time < start_time
EndEarlier(s, e) == e < s

\* while t <= end_time
LoopCond_Strict(tt, e) == tt < e
LoopCond(tt, e) == tt <= e

\* t += increment
Step_One(tt, inc) == tt + 1
Step(tt, inc) == tt + inc

\* expression = '"' + str(t) + '"'
Expression_DateOnly(tt) == [date |-> Str(tt).date, hour |-> 0, minute |-> 0]
Expression(tt) == Str(tt)

---------------------------------------------------------------------------
(* Initial state *)

Init ==
    /\ pc = "checkLicense"
    /\ checkedOut = TRUE
    /\ licenseAvailable \in BOOLEAN
    /\ desc \in [dataType : {"NALayer", "FeatureLayer"},
                 solverName : {"Service Area Solver", "Route Solver"}]
    /\ errors = <<>>
    /\ warnings = <<>>
    /\ start_day_input = ""
    /\ end_day_input = ""
    /\ start_time_input = ""
    /\ end_time_input = ""
    /\ generic_weekday = FALSE
    /\ start_day = 0
    /\ end_day = 0
    /\ start_time = 0
    /\ end_time = 0
    /\ increment = 0
    /\ timelist = <<>>
    /\ t = 0
    /\ idx = 1
    /\ fieldType \in {"None", "Date", "String"}
    /\ polygons = [Shape |-> NoTime, TimeOfDay |-> NoTag]
    /\ timeOfDay = NoTime
    /\ outputExists \in BOOLEAN
    /\ output = IF outputExists
                THEN <<[Shape |-> OldShape, TimeOfDay |-> OldTag]>>
                ELSE <<>>
    /\ toolsRun = {}

---------------------------------------------------------------------------
(* Steps of the script *)

inputVars == <<start_day_input, end_day_input, start_time_input, end_time_input>>
parseVars == <<generic_weekday, start_day, end_day, start_time, end_time>>
listVars == <<increment, timelist, t, idx>>
gisVars == <<fieldType, polygons, timeOfDay, outputExists, output, toolsRun>>
envVars == <<licenseAvailable, desc>>

\* arcpy.AddError(msg); raise CustomError; except CustomError: pass;
\* finally: arcpy.CheckInExtension("Network")
Reject(msg) ==
    /\ errors' = Append(errors, msg)
    /\ pc' = "rejected"
    /\ checkedOut' = FALSE

\* if arcpy.CheckExtension("Network") == "Available"
CheckLicense ==
    /\ pc = "checkLicense"
    /\ IF licenseAvailable
       THEN /\ checkedOut' = TRUE
            /\ pc' = "describe"
            /\ UNCHANGED errors
       ELSE Reject(ErrLicense)
    /\ UNCHANGED <<warnings, inputVars, parseVars, listVars, gisVars, envVars>>

\* desc = arcpy.Describe(input_network_analyst_layer) and its check
CheckLayer ==
    /\ pc = "describe"
    /\ IF NotServiceArea(desc)
       THEN Reject(ErrLayer)
       ELSE /\ pc' = "getInputs"
            /\ UNCHANGED <<errors, checkedOut>>
    /\ UNCHANGED <<warnings, inputVars, parseVars, listVars, gisVars, envVars>>

\* arcpy.GetParameterAsText(2..5)
GetInputs ==
    /\ pc = "getInputs"
    /\ \E sd \in DayInputs, ed \in DayInputs, st \in ClockInputs, et \in ClockInputs :
         /\ InstantOf(ed, et) - InstantOf(sd, st) <= MaxWindow
         /\ start_day_input' = sd
         /\ end_day_input' = ed
         /\ start_time_input' = st
         /\ end_time_input' = et
    /\ pc' = "parseStart"
    /\ UNCHANGED <<checkedOut, errors, warnings, parseVars, listVars, gisVars, envVars>>

\* Lower end of time window
ParseStart ==
    /\ pc = "parseStart"
    /\ IF start_day_input \in DOMAIN days
       THEN /\ generic_weekday' = TRUE
            /\ start_day' = days[start_day_input]
       ELSE /\ generic_weekday' = FALSE
            /\ start_day' = StrpDate(start_day_input)
    /\ start_time' = Combine(start_day', StrpTime(start_time_input))
    /\ pc' = "parseEnd"
    /\ UNCHANGED <<checkedOut, errors, warnings, inputVars, end_day, end_time,
                   listVars, gisVars, envVars>>

\* Upper end of time window
ParseEnd ==
    /\ pc = "parseEnd"
    /\ IF end_day_input \in DOMAIN days
       THEN IF StartIsSpecific(generic_weekday)
            THEN /\ Reject(ErrStartSpecificEndGeneric)
                 /\ UNCHANGED <<end_day, end_time>>
            ELSE /\ end_day' = days[end_day_input]
                 /\ IF WeekdaysDiffer(start_day, end_day')
                    THEN /\ Reject(ErrWeekdays)
                         /\ UNCHANGED end_time
                    ELSE /\ end_time' = Combine(end_day', StrpTime(end_time_input))
                         /\ pc' = "compare"
                         /\ UNCHANGED <<errors, checkedOut>>
       ELSE IF generic_weekday
            THEN /\ Reject(ErrStartGenericEndSpecific)
                 /\ UNCHANGED <<end_day, end_time>>
            ELSE /\ end_day' = StrpDate(end_day_input)
                 /\ end_time' = Combine(end_day', StrpTime(end_time_input))
                 /\ pc' = "compare"
                 /\ UNCHANGED <<errors, checkedOut>>
    /\ UNCHANGED <<warnings, inputVars, generic_weekday, start_day, start_time,
                   listVars, gisVars, envVars>>

\* CompareTimes with the raise missing after the second AddError
CompareTimes_NoRaise ==
    /\ pc = "compare"
    /\ IF SameTime(start_time, end_time)
       THEN Reject(ErrSame)
       ELSE IF EndEarlier(start_time, end_time)
            THEN /\ errors' = Append(errors, ErrEarlier)
                 /\ pc' = "getIncrement"
                 /\ UNCHANGED checkedOut
            ELSE /\ pc' = "getIncrement"
                 /\ UNCHANGED <<errors, checkedOut>>
    /\ UNCHANGED <<warnings, inputVars, parseVars, listVars, gisVars, envVars>>

\* if start_time == end_time ... elif end_time < start_time ...
CompareTimes ==
    /\ pc = "compare"
    /\ IF SameTime(start_time, end_time)
       THEN Reject(ErrSame)
       ELSE IF EndEarlier(start_time, end_time)
            THEN Reject(ErrEarlier)
            ELSE /\ pc' = "getIncrement"
                 /\ UNCHANGED <<errors, checkedOut>>
    /\ UNCHANGED <<warnings, inputVars, parseVars, listVars, gisVars, envVars>>

\* increment_input = arcpy.GetParameter(6); timelist = []; t = start_time
GetIncrement ==
    /\ pc = "getIncrement"
    /\ \E increment_input \in 0..MaxInc : increment' = increment_input
    /\ timelist' = <<>>
    /\ t' = start_time
    /\ pc' = "enumerate"
    /\ UNCHANGED <<checkedOut, errors, warnings, inputVars, parseVars, idx,
                   gisVars, envVars>>

\* one iteration of: while t <= end_time: timelist.append(t); t += increment
EnumerateStep ==
    /\ pc = "enumerate"
    /\ LoopCond(t, end_time)
    /\ Len(timelist) < MaxList
    /\ timelist' = Append(timelist, t)
    /\ t' = Step(t, increment)
    /\ UNCHANGED <<pc, checkedOut, errors, warnings, inputVars, parseVars,
                   increment, idx, gisVars, envVars>>

\* the while condition fails: the time list is complete
EnumerateExit ==
    /\ pc = "enumerate"
    /\ ~LoopCond(t, end_time)
    /\ pc' = "prepareField"
    /\ UNCHANGED <<checkedOut, errors, warnings, inputVars, parseVars,
                   listVars, gisVars, envVars>>

\* Clean up a pre-existing TimeOfDay field that is not a Date, then
\* AddFieldToAnalysisLayer (does nothing when the field exists)
PrepareField ==
    /\ pc = "prepareField"
    /\ IF fieldType \notin {"None", "Date"}
       THEN /\ warnings' = Append(warnings, WarnField)
            /\ toolsRun' = toolsRun \cup {"DeleteField", "AddFieldToAnalysisLayer"}
       ELSE /\ UNCHANGED warnings
            /\ toolsRun' = toolsRun \cup {"AddFieldToAnalysisLayer"}
    /\ fieldType' = "Date"
    /\ idx' = 1
    /\ pc' = "forEach"
    /\ UNCHANGED <<checkedOut, errors, inputVars, parseVars, increment, timelist, t,
                   polygons, timeOfDay, outputExists, output, envVars>>

\* for t in timelist: solverProps.timeOfDay = t
SetTimeOfDay ==
    /\ pc = "forEach"
    /\ idx <= Len(timelist)
    /\ t' = timelist[idx]
    /\ timeOfDay' = t'
    /\ pc' = "solve"
    /\ UNCHANGED <<checkedOut, errors, warnings, inputVars, parseVars, increment,
                   timelist, idx, fieldType, polygons, outputExists, output,
                   toolsRun, envVars>>

\* arcpy.na.Solve(layer): new polygons for the solver's time of day
Solve ==
    /\ pc = "solve"
    /\ polygons' = [Shape |-> timeOfDay, TimeOfDay |-> NoTag]
    /\ toolsRun' = toolsRun \cup {"Solve"}
    /\ pc' = "calculate"
    /\ UNCHANGED <<checkedOut, errors, warnings, inputVars, parseVars, listVars,
                   fieldType, timeOfDay, outputExists, output, envVars>>

\* arcpy.na.Solve(layer) raises: except: raise; finally: CheckInExtension
SolveFails ==
    /\ pc = "solve"
    /\ toolsRun' = toolsRun \cup {"Solve"}
    /\ pc' = "crashed"
    /\ checkedOut' = FALSE
    /\ UNCHANGED <<errors, warnings, inputVars, parseVars, listVars,
                   fieldType, polygons, timeOfDay, outputExists, output, envVars>>

\* arcpy.management.CalculateField(polygons_subLayer, time_field, expression)
CalculateField ==
    /\ pc = "calculate"
    /\ polygons' = [polygons EXCEPT !.TimeOfDay = Expression(t)]
    /\ toolsRun' = toolsRun \cup {"CalculateField"}
    /\ pc' = "export"
    /\ UNCHANGED <<checkedOut, errors, warnings, inputVars, parseVars, listVars,
                   fieldType, timeOfDay, outputExists, output, envVars>>

\* if not arcpy.Exists(output): CopyFeatures else: Append
Export ==
    /\ pc = "export"
    /\ IF ~outputExists
       THEN /\ output' = <<polygons>>
            /\ outputExists' = TRUE
            /\ toolsRun' = toolsRun \cup {"CopyFeatures"}
       ELSE /\ output' = Append(output, polygons)
            /\ UNCHANGED outputExists
            /\ toolsRun' = toolsRun \cup {"Append"}
    /\ idx' = idx + 1
    /\ pc' = "forEach"
    /\ UNCHANGED <<checkedOut, errors, warnings, inputVars, parseVars, increment,
                   timelist, t, fieldType, polygons, timeOfDay, envVars>>

\* the for loop is exhausted; finally: arcpy.CheckInExtension("Network")
Finish ==
    /\ pc = "forEach"
    /\ idx > Len(timelist)
    /\ pc' = "done"
    /\ checkedOut' = FALSE
    /\ UNCHANGED <<errors, warnings, inputVars, parseVars, listVars, gisVars, envVars>>

Next ==
    \/ CheckLicense
    \/ CheckLayer
    \/ GetInputs
    \/ ParseStart
    \/ ParseEnd
    \/ CompareTimes
    \/ GetIncrement
    \/ EnumerateStep
    \/ EnumerateExit
    \/ PrepareField
    \/ SetTimeOfDay
    \/ Solve
    \/ SolveFails
    \/ CalculateField
    \/ Export
    \/ Finish

Spec == Init /\ [][Next]_vars

---------------------------------------------------------------------------
(* Vocabulary of the properties *)

\* the inputs have been read
InputsRead == start_day_input # ""
\* the instants the inputs denote
StartInstant == InstantOf(start_day_input, start_time_input)
EndInstant == InstantOf(end_day_input, end_time_input)
StartGeneric == start_day_input \in DOMAIN days
EndGeneric == end_day_input \in DOMAIN days
\* the positions after the enumeration loop
BuiltPcs == {"prepareField", "forEach", "solve", "calculate", "export", "done", "crashed"}
\* the positions before the start/end comparison has been made
ParsingPcs == {"checkLicense", "describe", "getInputs", "parseStart", "parseEnd", "compare"}
\* the result batches the output received from this run
ThisRun == SelectSeq(output, LAMBDA b : b.Shape # OldShape)
\* the instant a TimeOfDay tag reads as
TagInstant(tag) == tag.date * MinutesPerDay + tag.hour * MinutesPerHour + tag.minute
\* the output as it was before the run
UntouchedOutput ==
    output = IF outputExists THEN <<[Shape |-> OldShape, TimeOfDay |-> OldTag]>> ELSE <<>>
ValidationErrors ==
    {ErrLicense, ErrLayer, ErrStartSpecificEndGeneric, ErrStartGenericEndSpecific,
     ErrWeekdays, ErrSame, ErrEarlier}

---------------------------------------------------------------------------
(* Properties *)

\* C1: once the enumeration loop has ended (valid window, positive
\* increment), the time list has exactly floor((end - start) / increment) + 1
\* elements, end and start being the instants the inputs denote.
C1_Length ==
    pc \in BuiltPcs =>
        /\ increment > 0
        /\ StartInstant < EndInstant
        /\ Len(timelist) = ((EndInstant - StartInstant) \div increment) + 1

\* a list of several elements was built for a window the increment does not divide
C1_Witness ==
    /\ pc = "prepareField"
    /\ (EndInstant - StartInstant) % increment # 0
    /\ Len(timelist) >= 2

\* C2: once the enumeration loop has ended, the first element of the time
\* list is the start instant and its last element is the end instant.
C2_SpansStartThroughEnd ==
    pc \in BuiltPcs =>
        /\ Len(timelist) >= 1
        /\ timelist[1] = StartInstant
        /\ timelist[Len(timelist)] = EndInstant

\* C3: with a positive increment, at every step of the enumeration loop and
\* after it, the time list is strictly increasing, starts at the start
\* instant, has consecutive elements exactly one increment apart and holds
\* no element later than the end instant.
C3_ListShape ==
    (pc \in BuiltPcs \cup {"enumerate"} /\ increment > 0) =>
        /\ \A k \in 1..Len(timelist) : timelist[k] <= EndInstant
        /\ Len(timelist) >= 1 => timelist[1] = StartInstant
        /\ \A k \in 1..(Len(timelist) - 1) :
              /\ timelist[k] < timelist[k + 1]
              /\ timelist[k + 1] - timelist[k] = increment
        /\ \A j, k \in 1..Len(timelist) : j # k => timelist[j] # timelist[k]

\* the loop is under way with an increment of several minutes
C3_Witness ==
    /\ pc = "enumerate"
    /\ increment >= 2
    /\ Len(timelist) >= 2
    /\ LoopCond(t, end_time)

\* C4: building the time list terminates for every increment supplied,
\* zero included: every iteration of the enumeration loop that stays in the
\* loop brings t strictly closer to the end instant.
C4_EnumerationTerminates ==
    [][(pc = "enumerate" /\ pc' = "enumerate") => (end_time - t') < (end_time - t)]_vars

\* C5: when one of start day and end day is a generic weekday and the other
\* a specific date, the run does not get past the parsing of the end day: it
\* is rejected with the error message of that mismatch.
C5_KindMismatchRejects ==
    (InputsRead /\ pc \notin {"parseStart", "parseEnd"} /\ StartGeneric # EndGeneric) =>
        /\ pc = "rejected"
        /\ errors = <<IF StartGeneric THEN ErrStartGenericEndSpecific
                                     ELSE ErrStartSpecificEndGeneric>>

\* a specific start date before a generic end weekday was rejected
C5_Witness ==
    /\ pc = "rejected"
    /\ ~StartGeneric
    /\ EndGeneric
    /\ StartInstant < EndInstant

\* C6: when start day and end day are two different generic weekdays, the
\* run is rejected with the weekday error, whatever the clock times.
C6_WeekdayMismatchRejects ==
    (InputsRead /\ pc \notin {"parseStart", "parseEnd"}
       /\ StartGeneric /\ EndGeneric /\ start_day_input # end_day_input) =>
        /\ pc = "rejected"
        /\ errors = <<ErrWeekdays>>

\* Monday to a later time on Tuesday was rejected
C6_Witness ==
    /\ pc = "rejected"
    /\ start_day_input = "Monday"
    /\ end_day_input = "Tuesday"
    /\ StartInstant < EndInstant

\* C7: for endpoints of the same selector kind, once the comparison is
\* made, equal instants are rejected, an end before the start is rejected,
\* and a start strictly before the end is not rejected by the comparison
\* (it is rejected only for two different generic weekdays).
C7_Comparison ==
    (InputsRead /\ pc \notin ParsingPcs /\ StartGeneric = EndGeneric) =>
        /\ StartInstant = EndInstant => pc = "rejected"
        /\ EndInstant < StartInstant => pc = "rejected"
        /\ StartInstant < EndInstant =>
              /\ errors # <<ErrSame>>
              /\ errors # <<ErrEarlier>>
              /\ pc = "rejected" <=> (StartGeneric /\ start_day_input # end_day_input)

\* a window whose two instants are equal was rejected by the comparison
C7_Witness ==
    /\ pc = "rejected"
    /\ errors = <<ErrSame>>
    /\ StartInstant = EndInstant
    /\ StartGeneric = EndGeneric

\* C8: a run that reports a validation error is over (no step is enabled),
\* has reported exactly that one error, and has set no solver property, run
\* no solve, added or deleted no field and left the output as it was; and a
\* rejected run has reported its error.
C8_ValidationTerminal ==
    (pc = "rejected" \/ errors # <<>>) =>
        /\ pc = "rejected"
        /\ Len(errors) = 1
        /\ errors[1] \in ValidationErrors
        /\ timeOfDay = NoTime
        /\ toolsRun = {}
        /\ polygons = [Shape |-> NoTime, TimeOfDay |-> NoTag]
        /\ UntouchedOutput
        /\ ~ENABLED Next

\* a window whose end precedes its start was rejected
C8_Witness ==
    /\ pc = "rejected"
    /\ errors = <<ErrEarlier>>
    /\ EndInstant < StartInstant

\* C9: throughout the solve loop the output has received one batch for each
\* of the idx - 1 instants already handled, in the order of the time list,
\* each solved for and tagged with its instant; the solver's time of day is
\* the current instant only after all earlier instants were exported; and a
\* run that ends without failure has handled every instant.
C9_Sequential ==
    pc \in {"forEach", "solve", "calculate", "export", "done", "crashed"} =>
        /\ Len(ThisRun) = idx - 1
        /\ idx - 1 <= Len(timelist)
        /\ \A k \in 1..(idx - 1) :
              /\ ThisRun[k].Shape = timelist[k]
              /\ TagInstant(ThisRun[k].TimeOfDay) = timelist[k]
        /\ \A k \in 1..(idx - 2) : ThisRun[k].Shape < ThisRun[k + 1].Shape
        /\ pc \in {"solve", "calculate", "export"} =>
              /\ idx <= Len(timelist)
              /\ timeOfDay = timelist[idx]
              /\ t = timelist[idx]
        /\ pc \in {"calculate", "export"} => polygons.Shape = timelist[idx]
        /\ pc = "export" => TagInstant(polygons.TimeOfDay) = timelist[idx]
        /\ pc = "done" => idx - 1 = Len(timelist)

\* a run over three or more instants ended with every batch exported
C9_Witness ==
    /\ pc = "done"
    /\ Len(timelist) >= 3
    /\ Len(ThisRun) = Len(timelist)

\* C10: in a run that solved, the first export created the output
\* (CopyFeatures) and the final output holds only the batches of this run,
\* whether or not an output existed before the run.
C10_OutputOnlyThisRun ==
    /\ (pc = "forEach" /\ idx = 2) => "CopyFeatures" \in toolsRun
    /\ pc = "done" =>
          /\ "CopyFeatures" \in toolsRun
          /\ output = ThisRun

====
